---- MODULE Spec2Model ----
(***************************************************************************)
(* GitArena access-control gateway: HTTP Basic authentication in front of  *)
(* the Git smart-HTTP endpoints (src/git/basic_auth.rs), the session       *)
(* identity resolver (src/extensions.rs) and the request header accessor   *)
(* (src/prelude.rs).                                                       *)
(*                                                                         *)
(* Text is modelled as a sequence of byte values (0..255), so that the     *)
(* header parsing, the Base64 decoding, the UTF-8 check and the integer    *)
(* parsing are computed the way the code computes them.                    *)
(***************************************************************************)
EXTENDS Integers, Sequences, FiniteSets, TLC

VARIABLES users, op, repo, content_type, request, identity, dbUp, ret, calls, query

vars == <<users, op, repo, content_type, request, identity, dbUp, ret, calls, query>>

\* ------------------------------------------------------------------ text

\* Printable ASCII, code points 32..126, in order (code point 96, the grave
\* accent, is spelled out: it occurs in no text of the model).
Ascii ==
  <<
     " ", "!", "\"", "#", "$", "%", "&", "'", "(", ")", "*", "+", ",", "-", ".", "/",
     "0", "1", "2", "3", "4", "5", "6", "7", "8", "9", ":", ";", "<", "=", ">", "?",
     "@", "A", "B", "C", "D", "E", "F", "G", "H", "I", "J", "K", "L", "M", "N", "O",
     "P", "Q", "R", "S", "T", "U", "V", "W", "X", "Y", "Z", "[", "\\", "]", "^", "_",
     "GRAVE", "a", "b", "c", "d", "e", "f", "g", "h", "i", "j", "k", "l", "m", "n", "o",
     "p", "q", "r", "s", "t", "u", "v", "w", "x", "y", "z", "{", "|", "}", "~"
  >>

\* The byte value of a printable ASCII character.
Ord(c) == 31 + (CHOOSE i \in 1..Len(Ascii) : Ascii[i] = c)

\* A string literal, written as a tuple of characters, as its bytes.
S(chars) == [i \in 1..Len(chars) |-> Ord(chars[i])]

\* Option<T>
None == [some |-> FALSE]
Some(x) == [some |-> TRUE, val |-> x]

\* Result<T>
Ok(x) == [kind |-> "Ok", val |-> x]
Err(e) == [kind |-> "Err", err |-> e]

\* Either<A, B>
EitherA(x) == [side |-> "A", val |-> x]
EitherB(x) == [side |-> "B", val |-> x]

\* GAErrors::GitError(status, Option<message>)
GitError(status, message) == [type |-> "GitError", status |-> status, message |-> message]

\* An error of another library carried by anyhow::Error (the `?` conversions).
ForeignError(type) == [type |-> type]

IncorrectMsg == "Incorrect username or password"

\* str::splitn(2, sep): the text before the first `sep` and, when there is a
\* `sep`, the text after it. The first item always exists (also for "").
SplitN2(s, sep) ==
  IF \E i \in 1..Len(s) : s[i] = sep
  THEN LET i == CHOOSE k \in 1..Len(s) : s[k] = sep /\ \A j \in 1..(k - 1) : s[j] # sep
       IN  [first |-> SubSeq(s, 1, i - 1), second |-> Some(SubSeq(s, i + 1, Len(s)))]
  ELSE [first |-> s, second |-> None]

\* Option<&str>::unwrap_or_default() / unwrap_or(d)
UnwrapOr(o, d) == IF o.some THEN o.val ELSE d

\* ---------------------------------------------------------------- base64

\* The standard Base64 alphabet.
B64Alphabet ==
  S(<<"A", "B", "C", "D", "E", "F", "G", "H", "I", "J", "K", "L", "M", "N", "O", "P",
      "Q", "R", "S", "T", "U", "V", "W", "X", "Y", "Z", "a", "b", "c", "d", "e", "f",
      "g", "h", "i", "j", "k", "l", "m", "n", "o", "p", "q", "r", "s", "t", "u", "v",
      "w", "x", "y", "z", "0", "1", "2", "3", "4", "5", "6", "7", "8", "9", "+", "/">>)

IsB64(b) == \E i \in 1..Len(B64Alphabet) : B64Alphabet[i] = b

\* The 6-bit value of a Base64 symbol.
B64Val(b) == (CHOOSE i \in 1..Len(B64Alphabet) : B64Alphabet[i] = b) - 1

\* The number of trailing `=` of s.
RECURSIVE PadLen(_)
PadLen(s) ==
  IF s # <<>> /\ s[Len(s)] = Ord("=") THEN 1 + PadLen(SubSeq(s, 1, Len(s) - 1)) ELSE 0

\* The bytes of the symbols d (already checked), four symbols to three bytes;
\* a last group of two or three symbols gives one or two bytes.
RECURSIVE B64Bytes(_)
B64Bytes(d) ==
  IF d = <<>> THEN <<>>
  ELSE LET k == IF Len(d) >= 4 THEN 4 ELSE Len(d)
           v(i) == IF i <= k THEN B64Val(d[i]) ELSE 0
           n == v(1) * 262144 + v(2) * 4096 + v(3) * 64 + v(4)
           three == <<n \div 65536, (n \div 256) % 256, n % 256>>
       IN  SubSeq(three, 1, k - 1) \o B64Bytes(SubSeq(d, k + 1, Len(d)))

\* Whether the bits of the last group that belong to no byte are zero.
B64TrailingBitsZero(d) ==
  LET r == Len(d) % 4
  IN  CASE r = 2 -> B64Val(d[Len(d)]) % 16 = 0
        [] r = 3 -> B64Val(d[Len(d)]) % 4 = 0
        [] OTHER -> TRUE

\* base64::decode: Ok(bytes), or Err(DecodeError) for a symbol outside the
\* alphabet, padding that is misplaced or too long, a length that holds no
\* whole byte, or non-zero trailing bits.
Base64Decode(s) ==
  LET p == PadLen(s)
      d == SubSeq(s, 1, Len(s) - p)
  IN  IF \/ \E i \in 1..Len(d) : ~IsB64(d[i])
         \/ p > 2
         \/ (p > 0 /\ Len(s) % 4 # 0)
         \/ Len(d) % 4 = 1
         \/ ~B64TrailingBitsZero(d)
      THEN Err(ForeignError("base64::DecodeError"))
      ELSE Ok(B64Bytes(d))

\* ------------------------------------------------------------------ utf-8

IsCont(b) == b \in 128..191

\* Whether the bytes are well-formed UTF-8 (no overlong forms, no surrogates,
\* nothing above U+10FFFF).
RECURSIVE Utf8Valid(_)
Utf8Valid(b) ==
  IF b = <<>> THEN TRUE
  ELSE LET c == b[1]
           n == Len(b)
       IN  IF c < 128 THEN Utf8Valid(Tail(b))
           ELSE IF c \in 194..223
             THEN n >= 2 /\ IsCont(b[2]) /\ Utf8Valid(SubSeq(b, 3, n))
           ELSE IF c \in 224..239
             THEN /\ n >= 3
                  /\ b[2] \in (IF c = 224 THEN 160..191 ELSE IF c = 237 THEN 128..159 ELSE 128..191)
                  /\ IsCont(b[3])
                  /\ Utf8Valid(SubSeq(b, 4, n))
           ELSE IF c \in 240..244
             THEN /\ n >= 4
                  /\ b[2] \in (IF c = 240 THEN 144..191 ELSE IF c = 244 THEN 128..143 ELSE 128..191)
                  /\ IsCont(b[3])
                  /\ IsCont(b[4])
                  /\ Utf8Valid(SubSeq(b, 5, n))
           ELSE FALSE

\* String::from_utf8
FromUtf8(bytes) ==
  IF Utf8Valid(bytes) THEN Ok(bytes) ELSE Err(ForeignError("FromUtf8Error"))

\* ------------------------------------------------------- the user store

\* The database handle of one request: whether the database answers, and the
\* rows of the users table.
Executor(up, rows) == [up |-> up, rows |-> rows]

SqlxError == ForeignError("sqlx::Error")

\* lower(): ASCII letters to lower case.
Lower(s) == [i \in 1..Len(s) |-> IF s[i] \in 65..90 THEN s[i] + 32 ELSE s[i]]

\* fetch_optional_by_username comparing as registration does, in lower case.
fetch_optional_by_username_lower(executor, username) ==
  IF ~executor.up THEN Err(SqlxError)
  ELSE LET rows == {u \in executor.rows : Lower(u.username) = Lower(username)}
       IN  IF rows = {} THEN Ok(None) ELSE Ok(Some(CHOOSE u \in rows : TRUE))

\* "select * from users where username = $1 limit 1" with fetch_optional:
\* the row whose username equals the parameter byte for byte, if any.
fetch_optional_by_username(executor, username) ==
  IF ~executor.up THEN Err(SqlxError)
  ELSE LET rows == {u \in executor.rows : u.username = username}
       IN  IF rows = {} THEN Ok(None) ELSE Ok(Some(CHOOSE u \in rows : TRUE))

\* "select * from users where id = $1 and session = $2 limit 1" with
\* fetch_one: no row is an error (RowNotFound), as is a database failure.
fetch_one_by_id_session(executor, id, session) ==
  IF ~executor.up THEN Err(SqlxError)
  ELSE LET rows == {u \in executor.rows : u.id = id /\ u.session = session}
       IN  IF rows = {} THEN Err(ForeignError("sqlx::Error::RowNotFound"))
           ELSE Ok(CHOOSE u \in rows : TRUE)

\* crypto::check_password(&user, &password) -> Result<bool>: whether the
\* plaintext verifies against the user's stored credential material; an error
\* when that material cannot be processed.
check_password(user, password) ==
  IF ~user.hash_ok THEN Err(ForeignError("crypto::Error"))
  ELSE Ok(user.password = password)

\* ------------------------------------------------------------ prelude.rs

\* HeaderValue::to_str: the value as text when every byte is visible ASCII
\* (or a tab).
HeaderToStr(value) ==
  IF \A i \in 1..Len(value) : value[i] \in 32..126 \/ value[i] = 9
  THEN Ok(value) ELSE Err(ForeignError("ToStrError"))

\* HttpRequestExtensions::get_header: None when the request has no such
\* header or its value cannot be read as text.
get_header(req, header) ==
  LET value == req[header]
  IN  IF ~value.some THEN None
      ELSE LET str == HeaderToStr(value.val)
           IN  IF str.kind = "Ok" THEN Some(str.val) ELSE None

\* --------------------------------------------------------- basic_auth.rs

is_present(req) == get_header(req, "authorization").some

\* parse_basic_auth with every failure turned into the one generic denial.
parse_basic_auth_uniform(auth_header) ==
  LET split == SplitN2(auth_header, Ord(" "))
      decoded == Base64Decode(UnwrapOr(split.second, <<>>))
      creds == FromUtf8(decoded.val)
      splitted_creds == SplitN2(creds.val, Ord(":"))
      password == UnwrapOr(splitted_creds.second, <<>>)
  IN  IF \/ split.first # S(<<"B", "a", "s", "i", "c">>)
         \/ decoded.kind = "Err"
         \/ creds.kind = "Err"
         \/ splitted_creds.first = <<>>
         \/ password = <<>>
      THEN Err(GitError(401, Some(IncorrectMsg)))
      ELSE Ok([username |-> splitted_creds.first, password |-> password])

parse_basic_auth(auth_header) ==
  LET split == SplitN2(auth_header, Ord(" "))
      auth_type == split.first
      base64_creds == UnwrapOr(split.second, <<>>)
      decoded == Base64Decode(base64_creds)
      creds == FromUtf8(decoded.val)
      splitted_creds == SplitN2(creds.val, Ord(":"))
      username == splitted_creds.first
      password == UnwrapOr(splitted_creds.second, <<>>)
  IN  IF auth_type # S(<<"B", "a", "s", "i", "c">>) THEN Err(GitError(401, None))
      ELSE IF decoded.kind = "Err" THEN decoded
      ELSE IF creds.kind = "Err" THEN creds
      ELSE IF username = <<>> \/ password = <<>>
        THEN Err(GitError(401, Some(IncorrectMsg)))
      ELSE Ok([username |-> username, password |-> password])

\* What a call did besides returning: the functions it invoked, in order, and
\* the database lookup it issued (at most one per call).
Outcome(r, c, q) == [ret |-> r, calls |-> c, query |-> q]

Denied == Err(GitError(401, Some(IncorrectMsg)))

CallsParse == <<"parse_basic_auth">>
CallsFetch == <<"parse_basic_auth", "fetch_optional">>
CallsCheck == <<"parse_basic_auth", "fetch_optional", "check_password">>

\* authenticate_checked with a failing check_password turned into the
\* generic denial.
authenticate_checked_collapsing(user, checked, q) ==
  IF checked.kind = "Err" \/ ~checked.val THEN Outcome(Denied, CallsCheck, q)
  ELSE Outcome(Ok(user), CallsCheck, q)

\* authenticate_checked returning the row whatever check_password answered
\* (the `!` of the test lost).
authenticate_checked_trusting(user, checked, q) ==
  IF checked.kind = "Err" THEN Outcome(checked, CallsCheck, q)
  ELSE IF checked.val THEN Outcome(Denied, CallsCheck, q)
  ELSE Outcome(Ok(user), CallsCheck, q)

\* authenticate, from the password check on: `checked` is what
\* crypto::check_password returned for the row found.
authenticate_checked(user, checked, q) ==
  IF checked.kind = "Err" THEN Outcome(checked, CallsCheck, q)
  ELSE IF ~checked.val THEN Outcome(Denied, CallsCheck, q)
  ELSE Outcome(Ok(user), CallsCheck, q)

\* authenticate_fetched telling an unknown username apart from a wrong
\* password.
authenticate_fetched_telling(option, password, q) ==
  IF option.kind = "Err" THEN Outcome(option, CallsFetch, q)
  ELSE IF ~option.val.some
    THEN Outcome(Err(GitError(401, Some("Unknown username"))), CallsFetch, q)
  ELSE authenticate_checked(option.val.val, check_password(option.val.val, password), q)

\* authenticate, from the lookup's answer on: `option` is what fetch_optional
\* returned.
authenticate_fetched(option, password, q) ==
  IF option.kind = "Err" THEN Outcome(option, CallsFetch, q)
  ELSE IF ~option.val.some THEN Outcome(Denied, CallsFetch, q)
  ELSE authenticate_checked(option.val.val, check_password(option.val.val, password), q)

\* authenticate, from the parsed pair on.
authenticate_parsed(parsed, transaction) ==
  IF parsed.kind = "Err" THEN Outcome(parsed, CallsParse, None)
  ELSE IF parsed.val.username = <<>> \/ parsed.val.password = <<>>
    THEN Outcome(Denied, CallsParse, None)
  ELSE authenticate_fetched(
         fetch_optional_by_username(transaction, parsed.val.username),
         parsed.val.password,
         Some([by |-> "username", username |-> parsed.val.username]))

\* authenticate, from the header read on.
authenticate_header(auth_header, transaction) ==
  IF auth_header.some
  THEN authenticate_parsed(parse_basic_auth(auth_header.val), transaction)
  ELSE Outcome(Err(GitError(401, None)), <<>>, None)

authenticate(req, transaction) ==
  authenticate_header(get_header(req, "authorization"), transaction)

\* HttpResponse::Unauthorized() with the two headers and no body.
prompt(ct) ==
  [status |-> 401,
   headers |-> [ContentType |-> ct,
                WWWAuthenticate |-> "Basic realm=\"GitArena\", charset=\"UTF-8\""],
   body |-> <<>>]

\* login_flow's last line: Ok(Either::A(authenticate(..).await?)), `a` being
\* what authenticate returned and did.
login_flow_authenticated(a) ==
  Outcome(IF a.ret.kind = "Err" THEN a.ret ELSE Ok(EitherA(a.ret.val)),
          <<"authenticate">> \o a.calls, a.query)

\* login_flow asking again when the credentials are refused with a 401.
login_flow_reprompting(req, executor, ct) ==
  LET a == authenticate(req, executor)
  IN  IF a.ret.kind = "Err" /\ a.ret.err.type = "GitError"
      THEN Outcome(Ok(EitherB(prompt(ct))), <<"authenticate">> \o a.calls \o <<"prompt">>, a.query)
      ELSE login_flow_authenticated(a)

login_flow(req, executor, ct) ==
  IF ~is_present(req)
  THEN Outcome(Ok(EitherB(prompt(ct))), <<"prompt">>, None)
  ELSE login_flow_authenticated(authenticate(req, executor))

\* validate_repo_access for a repository that is not public: `l` is what
\* login_flow returned and did.
validate_repo_access_restricted(r, l) ==
  Outcome(IF l.ret.kind = "Err" THEN l.ret
          ELSE IF l.ret.val.side = "A"
            THEN Ok(EitherA([user |-> Some(l.ret.val.val), repo |-> r]))
          ELSE Ok(EitherB(l.ret.val.val)),
          <<"login_flow">> \o l.calls, l.query)

\* validate_repo_access_absent dropping login_flow's error with its value.
validate_repo_access_absent_swallowing(l) ==
  Outcome(Err(GitError(404, None)), <<"login_flow">> \o l.calls, l.query)

\* validate_repo_access_absent handing login_flow's challenge to the caller.
validate_repo_access_absent_prompting(l) ==
  Outcome(IF l.ret.kind = "Err" THEN l.ret
          ELSE IF l.ret.val.side = "B" THEN Ok(EitherB(l.ret.val.val))
          ELSE Err(GitError(404, None)),
          <<"login_flow">> \o l.calls, l.query)

\* validate_repo_access for no repository: login_flow's value is dropped, its
\* error is not.
validate_repo_access_absent(l) ==
  Outcome(IF l.ret.kind = "Err" THEN l.ret ELSE Err(GitError(404, None)),
          <<"login_flow">> \o l.calls, l.query)

\* validate_repo_access running login_flow before it looks at the visibility.
validate_repo_access_login_first(r, ct, req, executor) ==
  LET l == login_flow(req, executor, ct)
  IN  IF ~r.some THEN validate_repo_access_absent(l)
      ELSE IF l.ret.kind = "Err" THEN Outcome(l.ret, <<"login_flow">> \o l.calls, l.query)
      ELSE IF r.val.visibility # "Public" THEN validate_repo_access_restricted(r.val, l)
      ELSE Outcome(Ok(EitherA([user |-> None, repo |-> r.val])),
                   <<"login_flow">> \o l.calls, l.query)

validate_repo_access(r, ct, req, executor) ==
  IF r.some
  THEN IF r.val.visibility # "Public"
       THEN validate_repo_access_restricted(r.val, login_flow(req, executor, ct))
       ELSE Outcome(Ok(EitherA([user |-> None, repo |-> r.val])), <<>>, None)
  ELSE validate_repo_access_absent(login_flow(req, executor, ct))

\* ---------------------------------------------------------- extensions.rs

I32Max == 2147483647

IsDigit(b) == b \in 48..57

\* The value of the digits ds, added to acc decimal place by place, as
\* str::parse::<i32> does: away from zero in the direction of sign, an error
\* once the value leaves the i32 range.
RECURSIVE ParseDigits(_, _, _)
ParseDigits(ds, acc, sign) ==
  IF ds = <<>> THEN Ok(acc)
  ELSE LET d == ds[1] - 48
           lim == I32Max \div 10
           last == IF sign = 1 THEN I32Max % 10 ELSE (I32Max % 10) + 1
           over == IF sign = 1 THEN acc > lim \/ (acc = lim /\ d > last)
                   ELSE acc < -lim \/ (acc = -lim /\ d > last)
       IN  IF over THEN Err(ForeignError("ParseIntError"))
           ELSE ParseDigits(Tail(ds), acc * 10 + sign * d, sign)

\* str::parse::<i32>: an optional sign, then one or more ASCII digits.
ParseI32(s) ==
  LET signed == s # <<>> /\ s[1] \in {Ord("+"), Ord("-")}
      sign == IF signed /\ s[1] = Ord("-") THEN -1 ELSE 1
      ds == IF signed THEN Tail(s) ELSE s
  IN  IF ds = <<>> \/ \E i \in 1..Len(ds) : ~IsDigit(ds[i])
      THEN Err(ForeignError("ParseIntError"))
      ELSE ParseDigits(ds, 0, sign)

\* get_user_by_identity returning the lookup's error (`?` for `.ok()`).
get_user_by_identity_failing(ident, transaction) ==
  IF ~ident.some THEN Outcome(None, <<>>, None)
  ELSE LET split == SplitN2(ident.val, Ord("$"))
           parsed == ParseI32(split.first)
           id == IF parsed.kind = "Ok" THEN parsed.val ELSE -1
           session == UnwrapOr(split.second, S(<<"u", "n", "k", "n", "o", "w", "n">>))
           fetched == fetch_one_by_id_session(transaction, id, session)
       IN  Outcome(IF fetched.kind = "Ok" THEN Some(fetched.val) ELSE fetched,
                   <<"fetch_one">>,
                   Some([by |-> "id_session", id |-> id, session |-> session]))

get_user_by_identity(ident, transaction) ==
  IF ~ident.some THEN Outcome(None, <<>>, None)
  ELSE LET id_str == ident.val
           split == SplitN2(id_str, Ord("$"))
           parsed == ParseI32(split.first)
           id == IF parsed.kind = "Ok" THEN parsed.val ELSE -1
           session == UnwrapOr(split.second, S(<<"u", "n", "k", "n", "o", "w", "n">>))
           fetched == fetch_one_by_id_session(transaction, id, session)
       IN  Outcome(IF fetched.kind = "Ok" THEN Some(fetched.val) ELSE None,
                   <<"fetch_one">>,
                   Some([by |-> "id_session", id |-> id, session |-> session]))

\* ----------------------------------------------------------------- rows

\* The number of rows of the users table the model draws its stores from.
MaxUsers == 3

\* Rows of the users table. `password` stands for the stored credential
\* material (the plaintext it verifies), `hash_ok` for whether that material
\* can be processed. Row 2's material is damaged; row 3's session holds a
\* `$`; row 4's username differs from row 1's in case only. The ids are those
\* of a serial key (positive, so never the -1 get_user_by_identity falls back
\* to), and no session is the literal "unknown" it falls back to.
UserPool ==
  <<[id |-> 1, username |-> S(<<"b", "o", "b">>), password |-> S(<<"p", ":", "1">>),
     session |-> S(<<"a", "b", "c">>), hash_ok |-> TRUE],
    [id |-> 2, username |-> S(<<"a", "m", "y">>), password |-> S(<<"p", "w", "2">>),
     session |-> S(<<"d", "e", "f">>), hash_ok |-> FALSE],
    [id |-> 3, username |-> S(<<"c", "y">>), password |-> S(<<"k">>),
     session |-> S(<<"x", "$", "y">>), hash_ok |-> TRUE],
    [id |-> 4, username |-> S(<<"B", "o", "b">>), password |-> S(<<"p", ":", "1">>),
     session |-> S(<<"a", "b", "c">>), hash_ok |-> TRUE],
    [id |-> 5, username |-> S(<<"e", "v", "e">>), password |-> S(<<"q">>),
     session |-> S(<<"g", "h", "i">>), hash_ok |-> TRUE]>>

\* The stores: registration admits a username only when no stored username
\* equals it in lower case (user_create.rs), so no two rows of a store agree
\* up to case.
Stores ==
  LET rows == {UserPool[i] : i \in 1..(IF MaxUsers < Len(UserPool) THEN MaxUsers ELSE Len(UserPool))}
  IN  {st \in SUBSET rows :
         \A u, v \in st : Lower(u.username) = Lower(v.username) => u = v}

\* --------------------------------------------------------------- inputs

\* Authorization header values.

\* "Basic Ym9iOnA6MQ==" (bob:p:1)
HdrBobOk == S(<<"B", "a", "s", "i", "c", " ", "Y", "m", "9", "i", "O", "n", "A", "6", "M", "Q", "=", "=">>)

\* "Basic Ym9iOmJhZA==" (bob:bad)
HdrBobBad == S(<<"B", "a", "s", "i", "c", " ", "Y", "m", "9", "i", "O", "m", "J", "h", "Z", "A", "=", "=">>)

\* "Basic Qm9iOnA6MQ==" (Bob:p:1)
HdrBobUpper == S(<<"B", "a", "s", "i", "c", " ", "Q", "m", "9", "i", "O", "n", "A", "6", "M", "Q", "=", "=">>)

\* "Basic ZXZlOnA6MQ==" (eve:p:1)
HdrEve == S(<<"B", "a", "s", "i", "c", " ", "Z", "X", "Z", "l", "O", "n", "A", "6", "M", "Q", "=", "=">>)

\* "Basic YW15OnB3Mg==" (amy:pw2)
HdrAmy == S(<<"B", "a", "s", "i", "c", " ", "Y", "W", "1", "5", "O", "n", "B", "3", "M", "g", "=", "=">>)

\* "Basic Y3k6aw==" (cy:k)
HdrCy == S(<<"B", "a", "s", "i", "c", " ", "Y", "3", "k", "6", "a", "w", "=", "=">>)

\* "Bearer Ym9iOnA6MQ==" (scheme Bearer)
HdrBearer == S(<<"B", "e", "a", "r", "e", "r", " ", "Y", "m", "9", "i", "O", "n", "A", "6", "M", "Q", "=", "=">>)

\* "basic Ym9iOnA6MQ==" (scheme in lower case)
HdrLowerScheme == S(<<"b", "a", "s", "i", "c", " ", "Y", "m", "9", "i", "O", "n", "A", "6", "M", "Q", "=", "=">>)

\* "Basic !!!!" (no Base64)
HdrBadSymbols == S(<<"B", "a", "s", "i", "c", " ", "!", "!", "!", "!">>)

\* "Basic Ym9iO" (Base64 cut short)
HdrBadLength == S(<<"B", "a", "s", "i", "c", " ", "Y", "m", "9", "i", "O">>)

\* "Basic /zpw" (bytes FF 3A 70: no UTF-8)
HdrBadUtf8 == S(<<"B", "a", "s", "i", "c", " ", "/", "z", "p", "w">>)

\* "Basic Ym9icHcx" (bobpw1)
HdrNoColon == S(<<"B", "a", "s", "i", "c", " ", "Y", "m", "9", "i", "c", "H", "c", "x">>)

\* "Basic" (no second part)
HdrSchemeOnly == S(<<"B", "a", "s", "i", "c">>)

\* "Basic Ym9iOg==" (bob:)
HdrEmptyPass == S(<<"B", "a", "s", "i", "c", " ", "Y", "m", "9", "i", "O", "g", "=", "=">>)

\* "Basic OnAx" (:p1)
HdrEmptyUser == S(<<"B", "a", "s", "i", "c", " ", "O", "n", "A", "x">>)

\* The bytes FF FE: a header value that is no text.
HdrOpaque == <<255, 254>>

HeaderValues ==
  {HdrBobOk, HdrBobBad, HdrBobUpper, HdrEve, HdrAmy, HdrCy, HdrBearer, HdrLowerScheme,
   HdrBadSymbols, HdrBadLength, HdrBadUtf8, HdrNoColon, HdrSchemeOnly, HdrEmptyPass,
   HdrEmptyUser, HdrOpaque}

\* The requests: no Authorization header, or one of the values above.
Request(authorization) == [authorization |-> authorization]

Requests == {Request(None)} \cup {Request(Some(h)) : h \in HeaderValues}

\* Identity tokens.

\* "1$abc"
TokBob == S(<<"1", "$", "a", "b", "c">>)

\* "+1$abc"
TokBobPlus == S(<<"+", "1", "$", "a", "b", "c">>)

\* "01$abc"
TokBobZero == S(<<"0", "1", "$", "a", "b", "c">>)

\* "1$zzz"
TokBobWrongSession == S(<<"1", "$", "z", "z", "z">>)

\* "1"
TokNoSep == S(<<"1">>)

\* "notanumber"
TokNotANumber == S(<<"n", "o", "t", "a", "n", "u", "m", "b", "e", "r">>)

\* "x$abc"
TokBadId == S(<<"x", "$", "a", "b", "c">>)

\* "$abc"
TokEmptyId == S(<<"$", "a", "b", "c">>)

\* "99999999999$abc"
TokOverflow == S(<<"9", "9", "9", "9", "9", "9", "9", "9", "9", "9", "9", "$", "a", "b", "c">>)

\* "-1$abc"
TokMinusOne == S(<<"-", "1", "$", "a", "b", "c">>)

\* "3$x$y"
TokCy == S(<<"3", "$", "x", "$", "y">>)

\* ""
TokEmpty == <<>>

\* " 1$abc"
TokSpace == S(<<" ", "1", "$", "a", "b", "c">>)

Identities ==
  {None} \cup {Some(tok) : tok \in
     {TokBob, TokBobPlus, TokBobZero, TokBobWrongSession, TokNoSep, TokNotANumber,
      TokBadId, TokEmptyId, TokOverflow, TokMinusOne, TokCy, TokEmpty, TokSpace}}

\* RepoVisibility
Visibilities == {"Public", "Internal", "Private"}

Repository(visibility) == [id |-> 1, owner |-> 1, name |-> "repo", visibility |-> visibility]

\* The lookup result handed to validate_repo_access.
Repos == {None} \cup {Some(Repository(v)) : v \in Visibilities}

ContentTypes == {"application/x-git-upload-pack-advertisement", "text/plain"}

\* ------------------------------------------------------------- behaviour

NoRequest == Request(None)

Init ==
  /\ users \in Stores
  /\ op = "start"
  /\ repo = None
  /\ content_type = ""
  /\ request = NoRequest
  /\ identity = None
  /\ dbUp = TRUE
  /\ ret = None
  /\ calls = <<>>
  /\ query = None

\* Each request is served by one call; the call sets the inputs it was given
\* and what it returned and did.
Returned(o) ==
  /\ ret' = o.ret
  /\ calls' = o.calls
  /\ query' = o.query
  /\ UNCHANGED users

ValidateRepoAccess ==
  \E r \in Repos, ct \in ContentTypes, req \in Requests, up \in BOOLEAN :
    /\ op = "start"
    /\ op' = "validate_repo_access"
    /\ repo' = r
    /\ content_type' = ct
    /\ request' = req
    /\ identity' = None
    /\ dbUp' = up
    /\ Returned(validate_repo_access(r, ct, req, Executor(up, users)))

LoginFlow ==
  \E ct \in ContentTypes, req \in Requests, up \in BOOLEAN :
    /\ op = "start"
    /\ op' = "login_flow"
    /\ repo' = None
    /\ content_type' = ct
    /\ request' = req
    /\ identity' = None
    /\ dbUp' = up
    /\ Returned(login_flow(req, Executor(up, users), ct))

Authenticate ==
  \E req \in Requests, up \in BOOLEAN :
    /\ op = "start"
    /\ op' = "authenticate"
    /\ repo' = None
    /\ content_type' = ""
    /\ request' = req
    /\ identity' = None
    /\ dbUp' = up
    /\ Returned(authenticate(req, Executor(up, users)))

\* parse_basic_auth is handed a header value that get_header could read.
ParseBasicAuth ==
  \E req \in Requests :
    /\ get_header(req, "authorization").some
    /\ op = "start"
    /\ op' = "parse_basic_auth"
    /\ repo' = None
    /\ content_type' = ""
    /\ request' = req
    /\ identity' = None
    /\ dbUp' = TRUE
    /\ Returned(Outcome(parse_basic_auth(get_header(req, "authorization").val), <<>>, None))

GetUserByIdentity ==
  \E ident \in Identities, up \in BOOLEAN :
    /\ op = "start"
    /\ op' = "get_user_by_identity"
    /\ repo' = None
    /\ content_type' = ""
    /\ request' = NoRequest
    /\ identity' = ident
    /\ dbUp' = up
    /\ Returned(get_user_by_identity(ident, Executor(up, users)))

\* The request ends: everything but the users table is request-scoped.
RequestEnd ==
  /\ op # "start"
  /\ op' = "start"
  /\ repo' = None
  /\ content_type' = ""
  /\ request' = NoRequest
  /\ identity' = None
  /\ dbUp' = TRUE
  /\ ret' = None
  /\ calls' = <<>>
  /\ query' = None
  /\ UNCHANGED users

Next ==
  \/ ValidateRepoAccess
  \/ LoginFlow
  \/ Authenticate
  \/ ParseBasicAuth
  \/ GetUserByIdentity
  \/ RequestEnd

Spec == Init /\ [][Next]_vars

\* ------------------------------------------------- classes of the inputs

\* The pair each well-formed header value carries.
Credentials ==
  {[header |-> HdrBobOk, username |-> S(<<"b", "o", "b">>), password |-> S(<<"p", ":", "1">>)],
   [header |-> HdrBobBad, username |-> S(<<"b", "o", "b">>), password |-> S(<<"b", "a", "d">>)],
   [header |-> HdrBobUpper, username |-> S(<<"B", "o", "b">>), password |-> S(<<"p", ":", "1">>)],
   [header |-> HdrEve, username |-> S(<<"e", "v", "e">>), password |-> S(<<"p", ":", "1">>)],
   [header |-> HdrAmy, username |-> S(<<"a", "m", "y">>), password |-> S(<<"p", "w", "2">>)],
   [header |-> HdrCy, username |-> S(<<"c", "y">>), password |-> S(<<"k">>)]}

WrongSchemeHeaders == {HdrBearer, HdrLowerScheme}
BadBase64Headers == {HdrBadSymbols, HdrBadLength}
BadUtf8Headers == {HdrBadUtf8}
NoColonHeaders == {HdrNoColon, HdrSchemeOnly}
EmptyUserHeaders == {HdrEmptyUser}
EmptyPassHeaders == {HdrEmptyPass}
UnreadableHeaders == {HdrOpaque}

MalformedHeaders ==
  WrongSchemeHeaders \cup BadBase64Headers \cup BadUtf8Headers \cup NoColonHeaders
    \cup EmptyUserHeaders \cup EmptyPassHeaders

\* The request of this state carries a header value of the class H.
HeaderIn(H) == request.authorization.some /\ request.authorization.val \in H

NoHeader == ~request.authorization.some

\* The request carries the well-formed pair c.
Carries(c) == request.authorization.some /\ request.authorization.val = c.header

UnknownUsername(c) == \A u \in users : u.username # c.username

WrongPassword(c) ==
  \E u \in users : u.username = c.username /\ u.hash_ok /\ u.password # c.password

VerificationError(c) == \E u \in users : u.username = c.username /\ ~u.hash_ok

ValidFor(c, u) ==
  u \in users /\ u.username = c.username /\ u.hash_ok /\ u.password = c.password

Valid(c) == \E u \in users : ValidFor(c, u)

NotFound == Err(GitError(404, None))

\* The response prompt builds for the content type of this state.
Challenge ==
  [status |-> 401,
   headers |-> [ContentType |-> content_type,
                WWWAuthenticate |-> "Basic realm=\"GitArena\", charset=\"UTF-8\""],
   body |-> <<>>]

RepoAbsent == op = "validate_repo_access" /\ ~repo.some

RepoRestricted == op = "validate_repo_access" /\ repo.some /\ repo.val.visibility # "Public"

RepoPublic == op = "validate_repo_access" /\ repo.some /\ repo.val.visibility = "Public"

\* ----------------------------------------------------------------- claims

\* C1 as stated: with the repository absent, validate_repo_access ends in
\* NotFound whether the request carries valid credentials, invalid ones
\* (malformed header, unknown username, wrong password) or no header.
C1_AbsentAlwaysNotFound ==
  (/\ RepoAbsent
   /\ dbUp
   /\ \/ NoHeader
      \/ HeaderIn(MalformedHeaders)
      \/ \E c \in Credentials : Carries(c) /\ (Valid(c) \/ UnknownUsername(c) \/ WrongPassword(c)))
  => ret = NotFound

\* C1 as amended: with the repository absent, validate_repo_access ends in
\* NotFound when the request carries no readable Authorization header or
\* valid credentials; when login_flow fails (malformed header, unknown
\* username, wrong password) that failure is returned, not NotFound.
C1_AbsentNotFoundUnlessLoginFails ==
  RepoAbsent =>
    /\ (NoHeader \/ HeaderIn(UnreadableHeaders)) => ret = NotFound
    /\ \A c \in Credentials : (Carries(c) /\ dbUp /\ Valid(c)) => ret = NotFound
    /\ \A c \in Credentials :
         (Carries(c) /\ dbUp /\ (UnknownUsername(c) \/ WrongPassword(c))) => ret = Denied
    /\ HeaderIn(MalformedHeaders) => (ret.kind = "Err" /\ ret # NotFound)

C1_Witness ==
  /\ RepoAbsent
  /\ Carries([header |-> HdrBobOk, username |-> S(<<"b", "o", "b">>), password |-> S(<<"p", ":", "1">>)])
  /\ UserPool[1] \in users
  /\ dbUp
  /\ calls = <<"login_flow", "authenticate", "parse_basic_auth", "fetch_optional", "check_password">>
  /\ ret = NotFound

\* C2: for a request without valid credentials, validate_repo_access gives
\* the same outcome for a repository that exists and is not public as for one
\* that does not exist.
C2_ExistenceNotObservable ==
  (/\ RepoRestricted
   /\ dbUp
   /\ \/ NoHeader
      \/ HeaderIn(MalformedHeaders)
      \/ \E c \in Credentials : Carries(c) /\ ~Valid(c))
  => ret = validate_repo_access(None, content_type, request, Executor(dbUp, users)).ret

\* The text of a failure: a GitError's message, another error's own name.
DenialMessage(r) ==
  IF r.err.type = "GitError" THEN r.err.message ELSE Some(r.err.type)

\* C3 as stated: every malformed header value fails with the same message
\* text, in parse_basic_auth and in authenticate.
C3_MalformedSameMessage ==
  (op \in {"parse_basic_auth", "authenticate"} /\ HeaderIn(MalformedHeaders)) =>
    /\ ret.kind = "Err"
    /\ \A h \in MalformedHeaders :
         DenialMessage(parse_basic_auth(h)) = DenialMessage(ret)

\* C3 as amended: a decoded text without a colon, with an empty username or
\* with an empty password fails with 401 "Incorrect username or password"; a
\* scheme other than "Basic" fails with 401 and no message; a second part
\* that is no Base64 or no UTF-8 fails with the decoder's own error. None of
\* them reaches the database.
C3_MalformedByKind ==
  (op \in {"parse_basic_auth", "authenticate"} /\ HeaderIn(MalformedHeaders)) =>
    /\ HeaderIn(NoColonHeaders \cup EmptyUserHeaders \cup EmptyPassHeaders) => ret = Denied
    /\ HeaderIn(WrongSchemeHeaders) => ret = Err(GitError(401, None))
    /\ HeaderIn(BadBase64Headers) => ret = Err(ForeignError("base64::DecodeError"))
    /\ HeaderIn(BadUtf8Headers) => ret = Err(ForeignError("FromUtf8Error"))
    /\ query = None

C3_Witness ==
  /\ op = "authenticate"
  /\ HeaderIn({HdrBearer})
  /\ ret = Err(GitError(401, None))

\* C4: authenticate answers a well-formed pair with an unknown username and
\* one with a known username and a wrong password with the same denial:
\* 401 "Incorrect username or password".
C4_EnumerationResistance ==
  op = "authenticate" =>
    \A c \in Credentials :
      (Carries(c) /\ dbUp /\ (UnknownUsername(c) \/ WrongPassword(c))) =>
        ret = Err(GitError(401, Some("Incorrect username or password")))

C4_Witness ==
  /\ op = "authenticate"
  /\ HeaderIn({HdrBobBad})
  /\ UserPool[1] \in users
  /\ dbUp
  /\ calls = <<"parse_basic_auth", "fetch_optional", "check_password">>
  /\ ret = Denied

\* C5: for a public repository validate_repo_access returns (None, repo)
\* without calling login_flow, the parser or the database, whatever the
\* Authorization header holds.
C5_PublicAnonymous ==
  RepoPublic =>
    /\ ret = Ok(EitherA([user |-> None, repo |-> repo.val]))
    /\ calls = <<>>
    /\ query = None

C5_Witness ==
  /\ RepoPublic
  /\ HeaderIn({HdrBobBad})
  /\ ~dbUp
  /\ ret = Ok(EitherA([user |-> None, repo |-> Repository("Public")]))

\* C6: for a repository that is not public and a request with valid Basic
\* credentials, validate_repo_access returns (Some(user), repo), user being
\* the stored row whose username equals the supplied one byte for byte; and
\* it returns no user under another username.
C6_RestrictedValidAuthenticated ==
  RepoRestricted =>
    /\ \A c \in Credentials : \A u \in users :
         (Carries(c) /\ dbUp /\ ValidFor(c, u)) =>
           ret = Ok(EitherA([user |-> Some(u), repo |-> repo.val]))
    /\ (ret.kind = "Ok" /\ ret.val.side = "A") =>
         \E c \in Credentials :
           /\ Carries(c)
           /\ ret.val.val.user.some
           /\ ret.val.val.user.val.username = c.username

C6_Witness ==
  /\ RepoRestricted
  /\ repo.val.visibility = "Private"
  /\ HeaderIn({HdrBobOk})
  /\ ret = Ok(EitherA([user |-> Some(UserPool[1]), repo |-> Repository("Private")]))

ReadableHeader == request.authorization.some /\ ~HeaderIn(UnreadableHeaders)

\* C7 as stated: login_flow answers with the challenge exactly when the
\* request has no Authorization header.
C7_ChallengeIffNoHeader ==
  op = "login_flow" => (ret = Ok(EitherB(Challenge)) <=> NoHeader)

\* C7 as amended: login_flow answers with the challenge (401, WWW-Authenticate
\* Basic realm with charset UTF-8, the caller's content type, no body)
\* exactly when get_header finds no Authorization header it can read: the
\* header is missing, or its value is no text. With a readable header the
\* answer is the verified user or an error. For a repository that is not
\* public validate_repo_access hands that challenge on unchanged.
C7_ChallengeIffNoReadableHeader ==
  /\ op = "login_flow" =>
       /\ ret = Ok(EitherB(Challenge)) <=> ~ReadableHeader
       /\ ReadableHeader => (ret.kind = "Err" \/ \E u \in users : ret = Ok(EitherA(u)))
  /\ RepoRestricted =>
       (ret = Ok(EitherB(Challenge)) <=> ~ReadableHeader)

C7_Witness ==
  /\ op = "login_flow"
  /\ HeaderIn({HdrOpaque})
  /\ content_type = "text/plain"
  /\ ret = Ok(EitherB([status |-> 401,
                       headers |-> [ContentType |-> "text/plain",
                                    WWWAuthenticate |-> "Basic realm=\"GitArena\", charset=\"UTF-8\""],
                       body |-> <<>>]))

\* Tokens without a `$`, tokens whose id segment is no i32, and the tokens
\* "<id>$<session>" of rows of the pool.
NoSeparatorTokens == {TokNoSep, TokNotANumber, TokEmpty}
NoNumberTokens == {TokNotANumber, TokBadId, TokEmptyId, TokOverflow, TokEmpty, TokSpace}
RowTokens == {[token |-> TokBob, row |-> UserPool[1]], [token |-> TokCy, row |-> UserPool[3]]}

Unknown == S(<<"u", "n", "k", "n", "o", "w", "n">>)

\* C8: get_user_by_identity never returns an error: None for None; a token
\* without `$` is looked up with the session "unknown", a token whose id is
\* no number with the id -1, and neither finds a user; the token
\* "<id>$<session>" of a stored row finds that row.
C8_IdentityNeverFails ==
  op = "get_user_by_identity" =>
    /\ ret = None \/ \E u \in users : ret = Some(u)
    /\ ~identity.some => (ret = None /\ query = None)
    /\ (identity.some /\ identity.val \in NoSeparatorTokens) =>
         (query.val.session = Unknown /\ ret = None)
    /\ (identity.some /\ identity.val \in NoNumberTokens) =>
         (query.val.id = -1 /\ ret = None)
    /\ \A t \in RowTokens :
         (identity = Some(t.token) /\ dbUp /\ t.row \in users) => ret = Some(t.row)

C8_Witness ==
  /\ op = "get_user_by_identity"
  /\ identity = Some(TokNotANumber)
  /\ UserPool[1] \in users
  /\ dbUp
  /\ query = Some([by |-> "id_session", id |-> -1, session |-> Unknown])
  /\ ret = None

\* C9 as stated: once the row is found, a password that does not match and a
\* check that itself fails both give the generic 401.
C9_VerificationFailureGeneric ==
  op = "authenticate" =>
    \A c \in Credentials :
      (Carries(c) /\ dbUp /\ (WrongPassword(c) \/ VerificationError(c))) => ret = Denied

\* C9 as amended: once the row is found, a password that does not match
\* gives the generic 401 "Incorrect username or password"; a check that
\* itself fails is returned as its own error, not as that 401.
C9_MismatchGenericErrorPropagates ==
  op = "authenticate" =>
    \A c \in Credentials :
      /\ (Carries(c) /\ dbUp /\ WrongPassword(c)) => ret = Denied
      /\ (Carries(c) /\ dbUp /\ VerificationError(c)) =>
           ret = Err(ForeignError("crypto::Error"))

C9_Witness ==
  /\ op = "authenticate"
  /\ HeaderIn({HdrAmy})
  /\ UserPool[2] \in users
  /\ dbUp
  /\ ret = Err(ForeignError("crypto::Error"))

\* C10: when the user lookup fails with a database error, authenticate,
\* login_flow and validate_repo_access return that error: no 401, no 404, in
\* the branch of the absent repository as well.
C10_DatabaseFailureDistinct ==
  (/\ op \in {"authenticate", "login_flow", "validate_repo_access"}
   /\ ~RepoPublic
   /\ ~dbUp
   /\ \E c \in Credentials : Carries(c))
  => /\ query.some
     /\ ret = Err(ForeignError("sqlx::Error"))

C10_Witness ==
  /\ RepoAbsent
  /\ HeaderIn({HdrBobOk})
  /\ ~dbUp
  /\ ret = Err(ForeignError("sqlx::Error"))

\* validate_repo_access returned a user.
ReturnsUser == ret.kind = "Ok" /\ ret.val.side = "A" /\ ret.val.val.user.some

\* C11: validate_repo_access returns a user only if the repository is present
\* and not public, the Authorization header parses to a non-empty username
\* and a non-empty password, the user is the stored row with exactly that
\* username, and that row's password check answered true; an absent
\* repository ends in an error and a public one in no user.
C11_UserOnlyWhenVerified ==
  op = "validate_repo_access" =>
    /\ ~repo.some => ret.kind = "Err"
    /\ RepoPublic => (ret.kind = "Ok" /\ ret.val.side = "A" /\ ~ret.val.val.user.some)
    /\ ReturnsUser =>
         /\ RepoRestricted
         /\ ret.val.val.repo = repo.val
         /\ dbUp
         /\ "check_password" \in {calls[i] : i \in 1..Len(calls)}
         /\ \E c \in Credentials :
              /\ Carries(c)
              /\ c.username # <<>>
              /\ c.password # <<>>
              /\ ValidFor(c, ret.val.val.user.val)

C11_Witness ==
  /\ op = "validate_repo_access"
  /\ repo = Some(Repository("Internal"))
  /\ HeaderIn({HdrCy})
  /\ ReturnsUser
  /\ ret.val.val.user.val = UserPool[3]

====
